---------------------------- MODULE Spec2Model ----------------------------
(***************************************************************************)
(* A model of package semaphore (semaphore.go): a counting semaphore built *)
(* on one buffered Go channel.  Acquire sends on the channel, Release      *)
(* receives from it, Close closes it; the panics that a send on, or a      *)
(* close of, a closed channel raise are recovered into ErrUnusable and     *)
(* ErrAlreadyClosed.                                                       *)
(*                                                                         *)
(* The channel is modelled as the Go runtime keeps it: the number of       *)
(* buffered elements, the buffer size, the closed flag and the two FIFO    *)
(* queues of parked goroutines.  A parked goroutine is made runnable by    *)
(* the goroutine that completes its operation (a receive for a parked      *)
(* sender, a send for a parked receiver, a close for both) and returns     *)
(* from its call in a later step of its own.                               *)
(***************************************************************************)
EXTENDS Integers, Sequences, FiniteSets

\* Number of goroutines that share the semaphore.
NumProcs == 3

\* Largest size argument given to New; the sizes tried are -MaxSize..MaxSize.
MaxSize == 2

Procs == 1..NumProcs

SizeArgs == (0 - MaxSize)..MaxSize

ErrNil == "nil"

ErrUnusable == "ErrUnusable"

ErrAlreadyClosed == "ErrAlreadyClosed"

ErrSize == "size argument must be greater than 0"

VARIABLES
  sizeArg,    \* the size argument New was called with
  sema,       \* "nil" or "semaphore": the first value New returned
  newErr,     \* the error New returned
  c,          \* the channel s.c: [dataqsiz, qcount, closed, sendq, recvq]
  pc,         \* where each goroutine is
  ret,        \* each goroutine's last returned call: [op, err, closed]
  nilCloses,  \* how many Close calls returned nil (counted to 2)
  released    \* whether some Release's receive has completed

vars == <<sizeArg, sema, newErr, c, pc, ret, nilCloses, released>>

Range(q) == {q[i] : i \in 1..Len(q)}

\* make(chan struct{}, size)
makechan(size) ==
  [dataqsiz |-> size, qcount |-> 0, closed |-> FALSE, sendq |-> <<>>, recvq |-> <<>>]

\* New that lets the size 0 through.
NewAllowsZero(size) ==
  IF size < 0
    THEN [sema |-> "nil", err |-> ErrSize, c |-> makechan(0)]
    ELSE [sema |-> "semaphore", err |-> ErrNil, c |-> makechan(size)]

\* New(size): nil and an error for size < 1, else a semaphore over a fresh channel.
New(size) ==
  IF size < 1
    THEN [sema |-> "nil", err |-> ErrSize, c |-> makechan(0)]
    ELSE [sema |-> "semaphore", err |-> ErrNil, c |-> makechan(size)]

NoCall == [op |-> "none", err |-> ErrNil, closed |-> FALSE]

Init ==
  \E size \in SizeArgs :
    /\ sizeArg = size
    /\ sema = New(size).sema
    /\ newErr = New(size).err
    /\ c = New(size).c
    /\ pc = [p \in Procs |-> "idle"]
    /\ ret = [p \in Procs |-> NoCall]
    /\ nilCloses = 0
    /\ released = FALSE


(***************************************************************************)
(* The channel operations, as the Go runtime performs them under the       *)
(* channel's lock.  Each yields the channel afterwards, what became of the *)
(* caller, and the parked goroutines it made runnable.                     *)
(***************************************************************************)

\* SendPanics without the check of the closed flag.
SendPanicsNever(ch) == FALSE

\* A send on a closed channel panics.
SendPanics(ch) == ch.closed

\* HasRoom with the comparison off by one.
HasRoomOffByOne(ch) == ch.qcount <= ch.dataqsiz

\* A send finds room in the buffer.
HasRoom(ch) == ch.qcount < ch.dataqsiz

\* enqueue putting the newcomer at the head of the wait queue.
enqueueFront(q, p) == <<p>> \o q

\* A goroutine that must wait joins the tail of the wait queue.
enqueue(q, p) == Append(q, p)

\* s.c <- struct{}{} by goroutine p.
chansend(ch, p) ==
  IF SendPanics(ch)
    THEN [c |-> ch, outcome |-> "panic", wake |-> {}]
  ELSE IF ch.recvq # <<>>
    THEN [c |-> [ch EXCEPT !.recvq = Tail(@)], outcome |-> "done",
          wake |-> {Head(ch.recvq)}]
  ELSE IF HasRoom(ch)
    THEN [c |-> [ch EXCEPT !.qcount = @ + 1], outcome |-> "done", wake |-> {}]
  ELSE [c |-> [ch EXCEPT !.sendq = enqueue(@, p)], outcome |-> "park", wake |-> {}]

\* RecvClosedEmpty taking every closed channel for a drained one.
RecvClosedAny(ch) == ch.closed

\* A receive yields ok = false only on a channel that is closed and drained.
RecvClosedEmpty(ch) == ch.closed /\ ch.qcount = 0

\* SenderWaiting overlooking the parked senders.
SenderWaitingNever(ch) == FALSE

\* A receive finds a parked sender (the buffer is then full).
SenderWaiting(ch) == ch.sendq # <<>>

\* recv that hands the slot to the parked sender and frees it as well.
recvFreesSlot(ch) == [ch EXCEPT !.sendq = Tail(@), !.qcount = @ - 1]

\* A receive with a sender parked: the element at the head of the buffer is
\* taken, the sender's element takes the freed slot, the sender leaves the queue.
recv(ch) == [ch EXCEPT !.sendq = Tail(@)]

\* _, ok := <-s.c by goroutine p.
chanrecv(ch, p) ==
  IF RecvClosedEmpty(ch)
    THEN [c |-> ch, outcome |-> "closed", wake |-> {}]
  ELSE IF SenderWaiting(ch)
    THEN [c |-> recv(ch), outcome |-> "ok", wake |-> {Head(ch.sendq)}]
  ELSE IF ch.qcount > 0
    THEN [c |-> [ch EXCEPT !.qcount = @ - 1], outcome |-> "ok", wake |-> {}]
  ELSE [c |-> [ch EXCEPT !.recvq = enqueue(@, p)], outcome |-> "park", wake |-> {}]

\* ClosePanics without the check of the closed flag.
ClosePanicsNever(ch) == FALSE

\* A close of a closed channel panics.
ClosePanics(ch) == ch.closed

\* wakeAll leaving the parked goroutines parked.
wakeNone(q) == {}

\* A close makes every goroutine parked on the channel runnable.
wakeAll(q) == Range(q)

\* closechan that throws the buffered elements away.
closechanDropsBuffer(ch) ==
  IF ClosePanics(ch)
    THEN [c |-> ch, panic |-> TRUE, wakeSend |-> {}, wakeRecv |-> {}]
    ELSE [c |-> [ch EXCEPT !.closed = TRUE, !.qcount = 0,
                           !.sendq = <<>>, !.recvq = <<>>],
          panic |-> FALSE,
          wakeSend |-> wakeAll(ch.sendq), wakeRecv |-> wakeAll(ch.recvq)]

\* close(s.c): the buffered elements stay, both wait queues are emptied.
closechan(ch) ==
  IF ClosePanics(ch)
    THEN [c |-> ch, panic |-> TRUE, wakeSend |-> {}, wakeRecv |-> {}]
    ELSE [c |-> [ch EXCEPT !.closed = TRUE, !.sendq = <<>>, !.recvq = <<>>],
          panic |-> FALSE,
          wakeSend |-> wakeAll(ch.sendq), wakeRecv |-> wakeAll(ch.recvq)]

(***************************************************************************)
(* What the three methods return.                                          *)
(***************************************************************************)

\* AcquireErr that reports ErrUnusable whether or not the send panicked.
AcquireErrAlways(panicked) == ErrUnusable

\* AcquireErr with a recover that swallows the panic and leaves err nil.
AcquireErrNil(panicked) == ErrNil

\* Acquire's deferred recover: a panic of the send becomes ErrUnusable.
AcquireErr(panicked) == IF panicked THEN ErrUnusable ELSE ErrNil

\* ReleaseErr with the test of ok inverted.
ReleaseErrInverted(ok) == IF ok THEN ErrUnusable ELSE ErrNil

\* ReleaseErr that never reports the closed, drained channel.
ReleaseErrNil(ok) == ErrNil

\* Release: ErrUnusable when the receive reports !ok.
ReleaseErr(ok) == IF ~ok THEN ErrUnusable ELSE ErrNil

\* CloseErr without the recover: the panic of the close leaves the call.
CloseErrNoRecover(panicked) == IF panicked THEN "panic" ELSE ErrNil

\* Close's deferred recover: a panic of the close becomes ErrAlreadyClosed.
CloseErr(panicked) == IF panicked THEN ErrAlreadyClosed ELSE ErrNil

Returned(op, err, wasClosed) == [op |-> op, err |-> err, closed |-> wasClosed]

(***************************************************************************)
(* The calls.  A goroutine is "idle" (in no call, holding no permit),      *)
(* "holding" (its Acquire returned nil and it has not released), parked    *)
(* ("sendq" in Acquire, "recvq" in Release) or runnable again after being  *)
(* parked ("sendOk", "recvOk": its operation was completed by another      *)
(* goroutine; "sendClosed", "recvClosed": the channel was closed).         *)
(***************************************************************************)

\* s.Acquire() by p, up to its return or to the point where it parks.
Acquire(p) ==
  /\ sema = "semaphore"
  /\ pc[p] = "idle"
  /\ LET r == chansend(c, p)
         err == AcquireErr(r.outcome = "panic")
     IN /\ c' = r.c
        /\ pc' = [q \in Procs |->
                    IF q = p
                      THEN IF r.outcome = "park" THEN "sendq"
                           ELSE IF err = ErrNil THEN "holding" ELSE "idle"
                      ELSE IF q \in r.wake THEN "recvOk" ELSE pc[q]]
        /\ ret' = IF r.outcome = "park"
                    THEN ret
                    ELSE [ret EXCEPT ![p] = Returned("Acquire", err, c.closed)]
  /\ UNCHANGED <<sizeArg, sema, newErr, nilCloses, released>>

\* The rest of s.Acquire() for a p that was parked: the send either was
\* completed by a receiver or panics because the channel was closed.
AcquireResume(p) ==
  /\ pc[p] \in {"sendOk", "sendClosed"}
  /\ LET err == AcquireErr(pc[p] = "sendClosed")
     IN /\ pc' = [pc EXCEPT ![p] = IF err = ErrNil THEN "holding" ELSE "idle"]
        /\ ret' = [ret EXCEPT ![p] = Returned("Acquire", err, FALSE)]
  /\ UNCHANGED <<sizeArg, sema, newErr, c, nilCloses, released>>

\* s.Release() by p, up to its return or to the point where it parks.
ReleaseCall(p) ==
  /\ sema = "semaphore"
  /\ LET r == chanrecv(c, p)
         err == ReleaseErr(r.outcome = "ok")
     IN /\ c' = r.c
        /\ pc' = [q \in Procs |->
                    IF q = p
                      THEN IF r.outcome = "park" THEN "recvq" ELSE "idle"
                      ELSE IF q \in r.wake THEN "sendOk" ELSE pc[q]]
        /\ ret' = IF r.outcome = "park"
                    THEN ret
                    ELSE [ret EXCEPT ![p] = Returned("Release", err, c.closed)]
        /\ released' = (released \/ r.outcome = "ok")
  /\ UNCHANGED <<sizeArg, sema, newErr, nilCloses>>

\* Release by a goroutine that holds a permit.
Release(p) ==
  /\ pc[p] = "holding"
  /\ ReleaseCall(p)

\* Release by a goroutine that holds no permit.
ReleaseNoPermit(p) ==
  /\ pc[p] = "idle"
  /\ ReleaseCall(p)

\* The rest of s.Release() for a p that was parked: the receive either was
\* completed by a sender (ok) or reports !ok because the channel was closed.
ReleaseResume(p) ==
  /\ pc[p] \in {"recvOk", "recvClosed"}
  /\ pc' = [pc EXCEPT ![p] = "idle"]
  /\ ret' = [ret EXCEPT ![p] = Returned("Release", ReleaseErr(pc[p] = "recvOk"), FALSE)]
  /\ released' = (released \/ pc[p] = "recvOk")
  /\ UNCHANGED <<sizeArg, sema, newErr, c, nilCloses>>

\* s.Close() by p, whether or not p holds a permit.
Close(p) ==
  /\ sema = "semaphore"
  /\ pc[p] \in {"idle", "holding"}
  /\ LET r == closechan(c)
         err == CloseErr(r.panic)
     IN /\ c' = r.c
        /\ pc' = [q \in Procs |->
                    IF q \in r.wakeSend THEN "sendClosed"
                    ELSE IF q \in r.wakeRecv THEN "recvClosed" ELSE pc[q]]
        /\ ret' = [ret EXCEPT ![p] = Returned("Close", err, c.closed)]
        /\ nilCloses' = IF err = ErrNil /\ nilCloses < 2 THEN nilCloses + 1 ELSE nilCloses
  /\ UNCHANGED <<sizeArg, sema, newErr, released>>

(***************************************************************************)
(* Specifications.                                                         *)
(***************************************************************************)

\* Correct use: Release is called only by a goroutine that holds a permit.
Next ==
  \E p \in Procs :
    \/ Acquire(p)
    \/ AcquireResume(p)
    \/ Release(p)
    \/ Close(p)

Spec == Init /\ [][Next]_vars

\* Correct use, and every parked goroutine that was made runnable runs on.
FairSpec == Spec /\ \A p \in Procs : WF_vars(AcquireResume(p))

\* Any use: Release is also called by goroutines that hold no permit.
NextMisuse ==
  \E p \in Procs :
    \/ Acquire(p)
    \/ AcquireResume(p)
    \/ Release(p)
    \/ ReleaseNoPermit(p)
    \/ ReleaseResume(p)
    \/ Close(p)

SpecMisuse == Init /\ [][NextMisuse]_vars

\* Correct use of a semaphore that is never closed, where every runnable
\* goroutine runs on and every holder of a permit calls Release.
NextOpen ==
  \E p \in Procs :
    \/ Acquire(p)
    \/ AcquireResume(p)
    \/ Release(p)

SpecOpen ==
  /\ Init
  /\ [][NextOpen]_vars
  /\ \A p \in Procs : WF_vars(AcquireResume(p)) /\ WF_vars(Release(p))

(***************************************************************************)
(* Properties.                                                             *)
(***************************************************************************)

\* The goroutines whose Acquire returned nil and that have not released.
Holders == {p \in Procs : pc[p] = "holding"}

\* The goroutines that were given a permit: the holders, and the parked
\* senders whose send a Release has completed and that have yet to return.
Granted == {p \in Procs : pc[p] \in {"holding", "sendOk"}}

\* The goroutines parked in Acquire.
Blocked == {p \in Procs : pc[p] = "sendq"}

\* C1: under correct use, the goroutines that hold a permit (granted and not
\* yet released) are never more than the capacity given to New.
HeldAtMostCapacity ==
  sema = "semaphore" => Cardinality(Granted) <= c.dataqsiz

\* C1 witness: a semaphore of capacity 2 with 2 holders and an Acquire parked.
FullWithWaiter ==
  /\ c.dataqsiz = 2
  /\ Cardinality(Holders) = 2
  /\ c.sendq # <<>>

\* C2: while the semaphore is open and nothing was released, every Acquire
\* has either returned nil without parking or is parked, at most capacity of
\* them returned, and one is parked only when capacity of them hold a permit;
\* a Release with Acquires parked completes the send of the first of them,
\* which can then only return nil.
AdmitsExactlyCapacity ==
  /\ []((sema = "semaphore" /\ ~c.closed /\ ~released) =>
          /\ \A p \in Procs : pc[p] \in {"idle", "holding", "sendq"}
          /\ \A p \in Procs : ret[p].err = ErrNil
          /\ Range(c.sendq) = Blocked
          /\ c.qcount = Cardinality(Holders)
          /\ Cardinality(Holders) <= c.dataqsiz
          /\ (Blocked # {} => Cardinality(Holders) = c.dataqsiz))
  /\ [][(/\ ~c.closed
         /\ Blocked # {}
         /\ \E p \in Procs : pc[p] = "holding" /\ pc'[p] = "idle")
        => \E q \in Blocked : pc'[q] = "sendOk"]_vars
  /\ [][\A p \in Procs : pc[p] = "sendOk" => pc'[p] \in {"sendOk", "holding"}]_vars

\* C2 witness: capacity 2, open, and the send of a parked third Acquire has
\* been completed by a Release.
ThirdAcquireWoken ==
  /\ c.dataqsiz = 2
  /\ ~c.closed
  /\ \E p \in Procs : pc[p] = "sendOk"

\* C3: a Close makes every Acquire parked at that moment runnable with the
\* channel closed; none stays parked on a closed semaphore, none of them is
\* given a permit, and each of them returns ErrUnusable.
CloseUnblocksWaiters ==
  /\ [][\A p \in Procs :
          (pc[p] = "sendq" /\ ~c.closed /\ c'.closed) => pc'[p] = "sendClosed"]_vars
  /\ [](c.closed => Blocked = {})
  /\ [][\A p \in Procs : pc[p] = "sendClosed" => pc'[p] \in {"sendClosed", "idle"}]_vars
  /\ \A p \in Procs :
       (pc[p] = "sendClosed")
         ~> (pc[p] = "idle" /\ ret[p] = Returned("Acquire", ErrUnusable, FALSE))

\* C3 witness: Close found two Acquires parked.
TwoWaitersClosed ==
  \E p, q \in Procs : p # q /\ pc[p] = "sendClosed" /\ pc[q] = "sendClosed"

ClosedForever ==
  /\ [](nilCloses >= 1 => c.closed)
  /\ [][c.closed => c'.closed]_vars
  /\ [](\A p \in Procs :
          (ret[p].op = "Acquire" /\ ret[p].closed) => ret[p].err = ErrUnusable)
  /\ [][\A p \in Procs : (c.closed /\ pc[p] = "idle") => pc'[p] = "idle"]_vars

\* C5 witness: after Close a Release freed a slot, and an Acquire started
\* on the closed semaphore returned ErrUnusable all the same.
AcquireRefusedWithFreeSlot ==
  /\ c.closed
  /\ c.qcount < c.dataqsiz
  /\ \E p, q \in Procs :
       /\ ret[p] = Returned("Acquire", ErrUnusable, TRUE)
       /\ ret[q] = Returned("Release", ErrNil, TRUE)

\* C6: exactly one Close returns nil, the one that finds the semaphore open;
\* every Close that finds it closed returns ErrAlreadyClosed and changes
\* nothing of the channel.
ExactlyOneCloseNil ==
  /\ [](nilCloses = IF c.closed THEN 1 ELSE 0)
  /\ [](\A p \in Procs :
          ret[p].op = "Close" =>
            /\ c.closed
            /\ ret[p].err = IF ret[p].closed THEN ErrAlreadyClosed ELSE ErrNil)
  /\ [][(c.closed /\ \E p \in Procs : ret'[p].op = "Close" /\ ret'[p] # ret[p])
        => (c' = c /\ pc' = pc)]_vars

\* C6 witness: two goroutines closed; one got nil, the other ErrAlreadyClosed.
ClosedTwice ==
  \E p, q \in Procs :
    /\ p # q
    /\ ret[p] = Returned("Close", ErrNil, FALSE)
    /\ ret[q] = Returned("Close", ErrAlreadyClosed, TRUE)

\* C7: in every reachable state, whatever the number of outstanding permits,
\* no goroutine is parked inside Release or Close waiting for another
\* goroutine's call.
ReleaseAndCloseNeverBlock ==
  \A p \in Procs : pc[p] # "recvq"

ReleaseWakesExactlyOne ==
  /\ []((sema = "semaphore" /\ ~c.closed /\ Blocked # {}) =>
          (Cardinality(Granted) = c.dataqsiz /\ c.qcount = c.dataqsiz))
  /\ [][(/\ ~c.closed
         /\ Blocked # {}
         /\ \E p \in Procs : pc[p] = "holding" /\ pc'[p] = "idle")
        => /\ Blocked' \subseteq Blocked
           /\ Cardinality(Blocked \ Blocked') = 1
           /\ \A q \in Blocked \ Blocked' : pc'[q] = "sendOk"
           /\ Cardinality(Granted') = c.dataqsiz
           /\ c'.qcount = c.dataqsiz]_vars

\* C9 witness: a Release made one of two parked Acquires runnable and the
\* other is still parked.
OneWokenOneParked ==
  /\ ~c.closed
  /\ Blocked # {}
  /\ \E p \in Procs : pc[p] = "sendOk"

\* C10: on a semaphore that is never closed, where every holder releases and
\* every runnable goroutine runs on, every parked Acquire returns nil.
EveryAcquireReturns ==
  \A p \in Procs : (pc[p] \in {"sendq", "sendOk"}) ~> (pc[p] = "holding")

\* C10 witness: two Acquires are parked behind a holder after earlier
\* Releases.
TwoCompeting ==
  /\ released
  /\ Cardinality(Blocked) = 2

\* C11: under any use, a Release by a goroutine that holds no permit
\* included, every call that returns returns nil or its defined error:
\* Acquire and Release nil or ErrUnusable, Close nil or ErrAlreadyClosed; no
\* panic leaves a call.
NoUnrecoveredPanic ==
  \A p \in Procs :
    /\ ret[p].op \in {"Acquire", "Release"} => ret[p].err \in {ErrNil, ErrUnusable}
    /\ ret[p].op = "Close" => ret[p].err \in {ErrNil, ErrAlreadyClosed}
    /\ ret[p].op = "none" => ret[p] = NoCall

\* C11 witness: on a closed semaphore an Acquire, a second Close and a
\* Release that found no permit in the pool have all returned.
AllMisusesReturned ==
  \E p, q, r \in Procs :
    /\ ret[p] = Returned("Acquire", ErrUnusable, TRUE)
    /\ ret[q] = Returned("Close", ErrAlreadyClosed, TRUE)
    /\ ret[r] = Returned("Release", ErrUnusable, TRUE)

ReleaseErrOnlyWhenClosed ==
  /\ [](\A p \in Procs :
          (ret[p].op = "Release" /\ ret[p].err # ErrNil) =>
            (c.closed /\ ret[p].err = ErrUnusable))
  /\ [][\A p \in Procs :
          (~c'.closed /\ ret'[p].op = "Release" /\ ret'[p] # ret[p]) =>
            ret'[p].err = ErrNil]_vars
  /\ [][\A p \in Procs :
          (/\ \E q \in Procs : ret[q].op = "Release" /\ ret[q].err = ErrUnusable
           /\ Acquire(p)) =>
            (ret'[p] = Returned("Acquire", ErrUnusable, TRUE) /\ pc'[p] = "idle")]_vars

\* C13 witness: a Release returned ErrUnusable and an Acquire on the closed
\* semaphore returned ErrUnusable.
ReleaseAndAcquireUnusable ==
  \E p, q \in Procs :
    /\ ret[q].op = "Release"
    /\ ret[q].err = ErrUnusable
    /\ ret[p] = Returned("Acquire", ErrUnusable, TRUE)

\* The free slots of the pool: cap(s.c) - len(s.c).
available == c.dataqsiz - c.qcount

\* C14: under any use, a Release by a goroutine that holds no permit
\* included, the free slots of the pool stay between 0 and the capacity.
PoolWithinCapacity ==
  sema = "semaphore" => (0 <= available /\ available <= c.dataqsiz)

\* C14 witness: the semaphore is open, a goroutine holds a permit, and the
\* pool is empty all the same because of a Release that matched no Acquire.
PoolDrainedUnderHolder ==
  /\ ~c.closed
  /\ Holders # {}
  /\ available = c.dataqsiz
  /\ \E q \in Procs : pc[q] = "idle" /\ ret[q] = Returned("Release", ErrNil, FALSE)

\* The state New leaves: no call has been made on the semaphore yet.
Fresh == \A p \in Procs : pc[p] = "idle" /\ ret[p] = NoCall

\* C15: New returns nil and an error for every size below 1; for every size
\* from 1 on it returns a semaphore and no error, whose capacity is the size
\* and which is, as constructed, open with all its slots free.
NewContract ==
  /\ sizeArg < 1 => (sema = "nil" /\ newErr # ErrNil)
  /\ sizeArg >= 1 => (sema = "semaphore" /\ newErr = ErrNil /\ c.dataqsiz = sizeArg)
  /\ (sizeArg >= 1 /\ Fresh) => (~c.closed /\ available = sizeArg)

\* C15 witness: New(2) has returned an open semaphore with 2 free slots.
NewOfTwo ==
  /\ sizeArg = 2
  /\ Fresh
  /\ sema = "semaphore"
  /\ available = 2

\* C16: under correct use, open or closed, the occupied slots of the pool
\* are as many as the goroutines that were given a permit and have not
\* released it; parked Acquires and Acquires that returned ErrUnusable
\* occupy none.
PermitConservation ==
  sema = "semaphore" => c.qcount = Cardinality(Granted)

\* C16 witness: the semaphore is closed, an Acquire that was parked has
\* returned ErrUnusable, a holder has released after the Close and another
\* still holds its permit.
HolderLeftAfterClose ==
  /\ c.closed
  /\ Holders # {}
  /\ \E p, q \in Procs :
       /\ pc[p] = "idle"
       /\ ret[p] = Returned("Acquire", ErrUnusable, FALSE)
       /\ ret[q] = Returned("Release", ErrNil, TRUE)

\* C17: under any use, no step of a call that returns an error changes the
\* number of occupied slots or the closed flag: neither the step in which
\* an Acquire returns ErrUnusable, a Release returns ErrUnusable or a Close
\* returns ErrAlreadyClosed, nor the step in which such a call parked.
ErrorCallsChangeNothing ==
  /\ [][\A p \in Procs :
          (/\ ret'[p].err # ErrNil
           /\ \/ Acquire(p)
              \/ AcquireResume(p)
              \/ Release(p)
              \/ ReleaseNoPermit(p)
              \/ ReleaseResume(p)
              \/ Close(p)) =>
            (c'.qcount = c.qcount /\ c'.closed = c.closed)]_vars
  /\ [][\A p \in Procs :
          (pc'[p] \in {"sendq", "recvq"} /\ pc'[p] # pc[p]) =>
            (c'.qcount = c.qcount /\ c'.closed = c.closed)]_vars

\* C17 witness: an Acquire that was parked at the Close, a Release that
\* found the closed pool empty and a second Close have each returned their
\* error.
ThreeErrorsReturned ==
  \E p, q, r \in Procs :
    /\ ret[p] = Returned("Acquire", ErrUnusable, FALSE)
    /\ ret[q] = Returned("Release", ErrUnusable, TRUE)
    /\ ret[r] = Returned("Close", ErrAlreadyClosed, TRUE)

=============================================================================
